---------------------------- MODULE Spec2Model ----------------------------
(***************************************************************************)
(* A model of the TerraFirma world loader (src/src/world.cpp): the file    *)
(* prologue and section dispatch of World::run, the tile codec Tile::load, *)
(* the RLE expansion of World::loadTiles, the entity sections and the      *)
(* player-map overlay.                                                     *)
(*                                                                         *)
(* Files are byte sequences.  A decoder is an operator over a handle       *)
(* [data, pos] computed the way the code computes it; the actions draw the *)
(* bytes a step reads from bounded sets of byte sequences.                 *)
(***************************************************************************)
EXTENDS Integers, Sequences, FiniteSets, TLC

(***************************************************************************)
(* Machine arithmetic                                                      *)
(***************************************************************************)
RECURSIVE BitAnd(_, _)
\* a & b on non-negative integers
BitAnd(a, b) ==
  IF a = 0 \/ b = 0 THEN 0
  ELSE (a % 2) * (b % 2) + 2 * BitAnd(a \div 2, b \div 2)

RECURSIVE BitOr(_, _)
\* a | b on non-negative integers
BitOr(a, b) ==
  IF a = 0 THEN b
  ELSE IF b = 0 THEN a
  ELSE (IF a % 2 = 1 \/ b % 2 = 1 THEN 1 ELSE 0) + 2 * BitOr(a \div 2, b \div 2)

\* (quint8)(m << 1)
Shl8(m) == (m * 2) % 256

\* two's complement reading of a 16-bit word
Signed16(n) == IF n >= 32768 THEN n - 65536 ELSE n

Max(a, b) == IF a >= b THEN a ELSE b

\* the low 16 bits of a * b, for a and b in 0..65535, by the bytes of b
MulLow16(a, b) == (a * (b % 256) + ((a * (b \div 256)) % 256) * 256) % 65536

\* the bits 16 to 31 of a * b, for a and b in 0..65535
MulCarry16(a, b) ==
  ((a * (b % 256) + ((a * (b \div 256)) % 256) * 256) \div 65536
   + (a * (b \div 256)) \div 256) % 65536

\* a * b on two ints, as the 32-bit multiplication of the build yields it: the product
\* modulo 2^32 in two's complement, from the 16-bit halves of a and b
Mul32(a, b) ==
  LET al == a % 65536
      ah == (a \div 65536) % 65536
      bl == b % 65536
      bh == (b \div 65536) % 65536
      lo == MulLow16(al, bl)
      hi == (MulCarry16(al, bl) + MulLow16(ah, bl) + MulLow16(al, bh)) % 65536
  IN  (IF hi >= 32768 THEN hi - 65536 ELSE hi) * 65536 + lo

(***************************************************************************)
(* Handle: the little-endian reader.  A handle is [data |-> bytes,         *)
(* pos |-> bytes consumed]; a read returns a value and the handle after    *)
(* it.  A read past the end of the data yields 0 and leaves pos beyond     *)
(* Len(data): Eof tells.                                                   *)
(***************************************************************************)
Handle(bytes) == [data |-> bytes, pos |-> 0]

ByteAt(h, k) == IF h.pos + k < Len(h.data) THEN h.data[h.pos + k + 1] ELSE 0

Eof(h) == h.pos > Len(h.data)

skip(h, n) == [h EXCEPT !.pos = h.pos + n]

r8(h) == [val |-> ByteAt(h, 0), h |-> skip(h, 1)]

r16(h) == [val |-> Signed16(ByteAt(h, 0) + 256 * ByteAt(h, 1)), h |-> skip(h, 2)]

r32(h) ==
  [val |-> ByteAt(h, 0) + 256 * ByteAt(h, 1) + 65536 * ByteAt(h, 2)
           + 16777216 * (IF ByteAt(h, 3) >= 128 THEN ByteAt(h, 3) - 256 ELSE ByteAt(h, 3)),
   h |-> skip(h, 4)]

\* read(n): the next n bytes
read(h, n) ==
  [val |-> [k \in 1..n |-> ByteAt(h, k - 1)], h |-> skip(h, n)]

RECURSIVE rsLength(_, _, _)
\* the 7-bit-continuation length prefix of rs: [val, h]
rsLength(h, shift, acc) ==
  LET b == ByteAt(h, 0)
      v == acc + (b % 128) * shift
  IN  IF b >= 128 /\ shift < 268435456
        THEN rsLength(skip(h, 1), shift * 128, v)
        ELSE [val |-> v, h |-> skip(h, 1)]

\* rs: a length-prefixed string, as its bytes
rs(h) ==
  LET n == rsLength(h, 1, 0)
  IN  read(n.h, n.val)

(***************************************************************************)
(* The extra-data bitmap reader of World::run (and of loadPlayer2)         *)
(***************************************************************************)
RECURSIVE readBitsMsbFirst(_, _, _, _, _, _)
\* the reader as it would be with the mask walking down from 0x80
readBitsMsbFirst(h, numTiles, i, mask, bits, extra) ==
  IF i >= numTiles THEN [val |-> extra, h |-> h]
  ELSE IF mask = 1 \/ i = 0
    THEN LET b == r8(h)
         IN  readBitsMsbFirst(b.h, numTiles, i + 1, 128, b.val,
                              Append(extra, BitAnd(b.val, 128) # 0))
    ELSE readBitsMsbFirst(h, numTiles, i + 1, mask \div 2, bits,
                          Append(extra, BitAnd(bits, mask \div 2) # 0))

RECURSIVE readBitsLoop(_, _, _, _, _, _)
\* for (i = 0; i < numTiles; i++) { if (mask == 0x80) { bits = r8(); mask = 1; }
\*   else mask <<= 1;  extra.append(bits & mask); }
readBitsLoop(h, numTiles, i, mask, bits, extra) ==
  IF i >= numTiles THEN [val |-> extra, h |-> h]
  ELSE IF mask = 128
    THEN LET b == r8(h)
         IN  readBitsLoop(b.h, numTiles, i + 1, 1, b.val,
                          Append(extra, BitAnd(b.val, 1) # 0))
    ELSE readBitsLoop(h, numTiles, i + 1, Shl8(mask), bits,
                      Append(extra, BitAnd(bits, Shl8(mask)) # 0))

\* the mutant of readBits: an MSB-first reader
readBitsMutant(h, numTiles) == readBitsMsbFirst(h, numTiles, 0, 128, 0, <<>>)

\* quint8 mask = 0x80; quint8 bits = 0; QList<bool> extra; the loop
readBits(h, numTiles) == readBitsLoop(h, numTiles, 0, 128, 0, <<>>)

\* int numTiles = handle->r16(); then the bitmap: [numTiles, extra, h]
readExtra(h) ==
  LET n == r16(h)
      b == readBits(n.h, n.val)
  IN  [numTiles |-> n.val, extra |-> b.val, h |-> b.h]

(***************************************************************************)
(* Tile                                                                    *)
(***************************************************************************)
\* a freshly constructed Tile
DefaultTile ==
  [type |-> 0, wall |-> 0, u |-> -1, v |-> -1, wallu |-> -1, wallv |-> -1,
   color |-> 0, wallColor |-> 0, liquid |-> 0, slope |-> 0, flags |-> 0]

\* extra[type]; stray is what the read yields when type is not an index of extra
ExtraAt(extra, type, stray) ==
  IF type < Len(extra) THEN extra[type + 1] ELSE stray

\* the flag byte(s): [flags1, flags2, flags3, h]
TileFlags(h) ==
  LET a == r8(h)
      b == IF BitAnd(a.val, 1) # 0 THEN r8(a.h) ELSE [val |-> 0, h |-> a.h]
      c == IF BitAnd(a.val, 1) # 0 /\ BitAnd(b.val, 1) # 0
             THEN r8(b.h) ELSE [val |-> 0, h |-> b.h]
  IN  [flags1 |-> a.val, flags2 |-> b.val, flags3 |-> c.val, h |-> c.h]

\* the active part as it would be without the else branch (type = 0)
TileActiveMutant(f, old, extra, stray) ==
  LET active == BitAnd(f.flags1, 2) # 0
      t0 == [old EXCEPT !.flags = IF active THEN 1 ELSE 0]
  IN  IF ~active THEN [tile |-> t0, h |-> f.h]
      ELSE
        LET lo == r8(f.h)
            hi == IF BitAnd(f.flags1, 32) # 0 THEN r8(lo.h) ELSE [val |-> 0, h |-> lo.h]
            type == BitOr(lo.val, hi.val * 256)
            hasUV == ExtraAt(extra, type, stray)
            ru == IF hasUV THEN r16(hi.h) ELSE [val |-> -1, h |-> hi.h]
            rv == IF hasUV THEN r16(ru.h) ELSE [val |-> -1, h |-> ru.h]
            rc == IF BitAnd(f.flags3, 8) # 0 THEN r8(rv.h)
                                            ELSE [val |-> t0.color, h |-> rv.h]
        IN  [tile |-> [t0 EXCEPT !.type = type, !.u = ru.val, !.v = rv.val,
                                 !.color = rc.val],
             h |-> rc.h]

\* the active part of the record: [tile, h]
TileActive(f, old, extra, stray) ==
  LET active == BitAnd(f.flags1, 2) # 0
      t0 == [old EXCEPT !.flags = IF active THEN 1 ELSE 0]
  IN  IF ~active THEN [tile |-> [t0 EXCEPT !.type = 0], h |-> f.h]
      ELSE
        LET lo == r8(f.h)
            hi == IF BitAnd(f.flags1, 32) # 0 THEN r8(lo.h) ELSE [val |-> 0, h |-> lo.h]
            type == BitOr(lo.val, hi.val * 256)
            hasUV == ExtraAt(extra, type, stray)
            ru == IF hasUV THEN r16(hi.h) ELSE [val |-> -1, h |-> hi.h]
            rv == IF hasUV THEN r16(ru.h) ELSE [val |-> -1, h |-> ru.h]
            rc == IF BitAnd(f.flags3, 8) # 0 THEN r8(rv.h)
                                            ELSE [val |-> t0.color, h |-> rv.h]
        IN  [tile |-> [t0 EXCEPT !.type = type, !.u = ru.val, !.v = rv.val,
                                 !.color = rc.val],
             h |-> rc.h]

\* if (flags1 & 4) { wall ... } else wall = 0: [tile, h]
TileWall(f, a) ==
  IF BitAnd(f.flags1, 4) # 0
    THEN LET w == r8(a.h)
             wc == IF BitAnd(f.flags3, 16) # 0 THEN r8(w.h)
                                              ELSE [val |-> a.tile.wallColor, h |-> w.h]
         IN  [tile |-> [a.tile EXCEPT !.wall = w.val, !.wallColor = wc.val,
                                      !.wallu = -1, !.wallv = -1],
              h |-> wc.h]
    ELSE [tile |-> [a.tile EXCEPT !.wall = 0], h |-> a.h]

\* the liquid part as it would be with the lava test written (flags1 & 0x10)
TileLiquidMutant(f, a) ==
  LET lq == BitAnd(f.flags1, 24)
  IN  IF lq # 0
        THEN LET l == r8(a.h)
                 f1 == IF BitAnd(lq, 16) # 0 THEN BitOr(a.tile.flags, 2) ELSE a.tile.flags
                 f2 == IF lq = 24 THEN BitOr(f1, 4) ELSE f1
                 f3 == IF BitAnd(f.flags3, 128) # 0 THEN BitOr(f2, 2048) ELSE f2
             IN  [tile |-> [a.tile EXCEPT !.liquid = l.val, !.flags = f3], h |-> l.h]
        ELSE [tile |-> [a.tile EXCEPT !.liquid = 0], h |-> a.h]

\* if (flags1 & 0x18) { liquid, lava, honey, shimmer } else liquid = 0: [tile, h]
TileLiquid(f, a) ==
  LET lq == BitAnd(f.flags1, 24)
  IN  IF lq # 0
        THEN LET l == r8(a.h)
                 f1 == IF lq = 16 THEN BitOr(a.tile.flags, 2) ELSE a.tile.flags
                 f2 == IF lq = 24 THEN BitOr(f1, 4) ELSE f1
                 f3 == IF BitAnd(f.flags3, 128) # 0 THEN BitOr(f2, 2048) ELSE f2
             IN  [tile |-> [a.tile EXCEPT !.liquid = l.val, !.flags = f3], h |-> l.h]
        ELSE [tile |-> [a.tile EXCEPT !.liquid = 0], h |-> a.h]

\* wires, slope, actuator, inactive, yellow wire, the wall's high byte: [tile, h]
TileWires(f, a) ==
  LET slop == (f.flags2 \div 16) % 8
      g1 == IF BitAnd(f.flags2, 2) # 0 THEN BitOr(a.tile.flags, 8) ELSE a.tile.flags
      g2 == IF BitAnd(f.flags2, 4) # 0 THEN BitOr(g1, 16) ELSE g1
      g3 == IF BitAnd(f.flags2, 8) # 0 THEN BitOr(g2, 32) ELSE g2
      g4 == IF slop = 1 THEN BitOr(g3, 64) ELSE g3
      g5 == IF BitAnd(f.flags3, 2) # 0 THEN BitOr(g4, 128) ELSE g4
      g6 == IF BitAnd(f.flags3, 4) # 0 THEN BitOr(g5, 256) ELSE g5
      g7 == IF BitAnd(f.flags3, 32) # 0 THEN BitOr(g6, 1024) ELSE g6
      wh == IF BitAnd(f.flags3, 64) # 0 THEN r8(a.h) ELSE [val |-> 0, h |-> a.h]
  IN  [tile |-> [a.tile EXCEPT !.flags = g7,
                               !.slope = IF slop > 1 THEN slop - 1 ELSE 0,
                               !.wall = BitOr(a.tile.wall, wh.val * 256)],
       h |-> wh.h]

\* switch (flags1 >> 6) { case 1: rle = r8(); case 2: rle = r16(); }: [val, h]
TileRle(f, h) ==
  CASE f.flags1 \div 64 = 1 -> r8(h)
    [] f.flags1 \div 64 = 2 -> r16(h)
    [] OTHER -> [val |-> 0, h |-> h]

\* int Tile::load(handle, version, extra) on the tile old: [tile, rle, h]
TileLoad(h, extra, stray, old) ==
  LET f == TileFlags(h)
      a == TileActive(f, old, extra, stray)
      w == TileWall(f, a)
      l == TileLiquid(f, w)
      x == TileWires(f, l)
      r == TileRle(f, x.h)
  IN  [tile |-> x.tile, rle |-> r.val, h |-> r.h]

\* bool Tile::active() const, lava(), honey(), seen()
active(t) == BitAnd(t.flags, 1) # 0
lava(t) == BitAnd(t.flags, 2) # 0
honey(t) == BitAnd(t.flags, 4) # 0
TileSeen(t) == BitAnd(t.flags, 512) # 0

\* setSeen as it would be with flags assigned (flags = 0x200, flags = 0)
setSeenMutant(t, s) == [t EXCEPT !.flags = IF s THEN 512 ELSE 0]

\* void Tile::setSeen(bool seen)
setSeen(t, s) ==
  [t EXCEPT !.flags = IF s THEN BitOr(t.flags, 512)
                           ELSE t.flags - BitAnd(t.flags, 512)]

(***************************************************************************)
(* The World object and one run of the loader                              *)
(***************************************************************************)
VARIABLES
  pc,          \* where World::run stands: "idle" before the first run, "done" after a return
  loads,       \* how many times run has been started
  filename,    \* World::filename
  player,      \* World::player
  version,     \* run's local: the version word
  pos,         \* the handle's position in the world file
  sections,    \* run's local: the section offset table
  extra,       \* run's local: the extra-data bitmap
  header,      \* World::header, the keys the loader uses
  tilesWide, tilesHigh, tiles,
  x, y, offset,\* loadTiles' loop variables between two records
  written,     \* the offsets of tiles written since the array was allocated
  overrun,     \* a record's run reached past the bottom of its column in this run
  unknownKind, \* an entity record of a kind other than 0, 1, 2 was read in this run
  oob,         \* a write outside the tile array has happened
  chests, signs, npcs, entities, kills, seen, chats, shimmered,
  events,      \* the terminal events emitted by the call made last (run, setPlayer)
  fresh,       \* the collections a newly made World holds after the bytes of this run
  inp, out     \* the input and the result of a decoder applied on its own

vars ==
  <<pc, loads, filename, player, version, pos, sections, extra, header,
    tilesWide, tilesHigh, tiles, x, y, offset, written, overrun, oob,
    unknownKind, chests, signs, npcs, entities, kills, seen, chats, shimmered, events, fresh, inp, out>>

\* the variables of the World's collections
contents == <<chests, signs, npcs, entities, kills, seen, chats, shimmered>>
\* the variables of the tile array
grid == <<tilesWide, tilesHigh, tiles, x, y, offset, written, overrun, oob>>
\* the variables of a decoder applied on its own
lab == <<inp, out>>
\* what the prologue and the tiles leave alone
rest == <<unknownKind, contents, fresh, lab>>

HighestVersion == 279
MinimumVersion == 88

\* the collections of a newly made World
Empty ==
  [chests |-> <<>>, signs |-> <<>>, npcs |-> <<>>, entities |-> <<>>, kills |-> {},
   seen |-> <<>>, chats |-> <<>>, shimmered |-> {}]

\* the collections of this World
Contents ==
  [chests |-> chests, signs |-> signs, npcs |-> npcs, entities |-> entities,
   kills |-> kills, seen |-> seen, chats |-> chats, shimmered |-> shimmered]

\* World::World(): tiles = nullptr; tilesWide = tilesHigh = 0; empty collections
WorldInit ==
  /\ pc = "idle" /\ loads = 0
  /\ filename = "" /\ player = ""
  /\ version = 0 /\ pos = 0 /\ sections = <<>> /\ extra = <<>>
  /\ header = [loaded |-> FALSE, worldID |-> 0, guid |-> <<>>]
  /\ tilesWide = 0 /\ tilesHigh = 0 /\ tiles = <<>>
  /\ x = 0 /\ y = 0 /\ offset = 0
  /\ written = {} /\ overrun = FALSE /\ oob = FALSE /\ unknownKind = FALSE
  /\ chests = <<>> /\ signs = <<>> /\ npcs = <<>> /\ entities = <<>>
  /\ kills = {} /\ seen = <<>> /\ chats = <<>> /\ shimmered = {}
  /\ events = <<>>
  /\ fresh = Empty

NoLab == [kind |-> "none"]

emit(e) == events' = Append(events, e)

\* sections[k]: the offsets an index k yields; an index outside the table reads
\* whatever lies behind the list
StrayOffsets == {0, 1000}
SectionAt(k) == IF k < Len(sections) THEN {sections[k + 1]} ELSE StrayOffsets

\* the section run() turns to after the one at p
After(p, v) ==
  CASE p = "npcs" -> "entities"
    [] p = "entities" -> IF v >= 170 THEN "plates" ELSE "player"
    [] p = "plates" -> IF v >= 189 THEN "town" ELSE "player"
    [] p = "town" -> IF v >= 210 THEN "bestiary" ELSE "player"
    [] p = "bestiary" -> IF v >= 220 THEN "creative" ELSE "player"
    [] p = "creative" -> "player"

(***************************************************************************)
(* The prologue of World::run                                              *)
(***************************************************************************)
\* "relogic"
Relogic == <<114, 101, 108, 111, 103, 105, 99>>

RECURSIVE readOffsets(_, _, _, _)
\* for (i = 0; i < numSections; i++) sections.append(handle->r32());
readOffsets(h, numSections, i, acc) ==
  IF i >= numSections THEN [val |-> acc, h |-> h]
  ELSE LET o == r32(h)
       IN  readOffsets(o.h, numSections, i + 1, Append(acc, o.val))

\* int numSections = handle->r16(); QList<int> sections; the loop
readSections(h) ==
  LET n == r16(h)
  IN  readOffsets(n.h, n.val, 0, <<>>)

\* the two checks as they would be with the first written version > HighestVersion + 1
VersionCheckMutant(v) ==
  IF v > HighestVersion + 1 THEN "UnsupportedVersion"
  ELSE IF v < MinimumVersion THEN "VersionTooOld"
  ELSE "ok"

\* if (version > HighestVersion) loadError...; if (version < MinimumVersion) loadError...
VersionCheck(v) ==
  IF v > HighestVersion THEN "UnsupportedVersion"
  ELSE IF v < MinimumVersion THEN "VersionTooOld"
  ELSE "ok"

\* setFilename, and run() is started on the file: the version word and its two checks
\* the names a caller gives the World: none, and that of the world file
FileNames == {"", "world.wld"}

\* void World::setFilename(filename), called between two runs
SetFilename ==
  /\ pc \in {"idle", "done"}
  /\ \E f \in FileNames : filename' = f
  /\ UNCHANGED <<pc, loads, player, version, pos, sections, extra, header, grid,
                 events, rest>>

\* the bytes the Handle of run reads the version word from: none without a file name
VersionWords(I) == IF filename = "" THEN {<<>>} ELSE I.versions

\* the start of run: the Handle of filename, the version word and its two checks
RunVersion(I) ==
  /\ pc \in {"idle", "done"}
  /\ loads < I.loads
  /\ \E w \in VersionWords(I) :
       LET v == r32(Handle(w))
       IN  /\ version' = v.val
           /\ pos' = v.h.pos
           /\ IF VersionCheck(v.val) # "ok"
                THEN events' = <<VersionCheck(v.val)>> /\ pc' = "done"
                ELSE events' = <<>>
                     /\ pc' = IF v.val >= 135 THEN "magic" ELSE "sections"
  /\ loads' = loads + 1
  /\ sections' = <<>> /\ extra' = <<>>
  /\ overrun' = FALSE /\ unknownKind' = FALSE
  /\ fresh' = Empty
  /\ UNCHANGED <<filename, player, header, tilesWide, tilesHigh, tiles, x, y, offset,
                 written, oob, contents, lab>>

\* version >= 135: the magic, the file type, revision and favorites
RunMagic(I) ==
  /\ pc = "magic"
  /\ \E m \in I.magics :
       LET magic == read([data |-> m, pos |-> 0], 7)
           type == r8(magic.h)
       IN  IF magic.val # Relogic
             THEN emit("NotARelogicMap") /\ pc' = "done" /\ pos' = pos + magic.h.pos
             ELSE IF type.val # 2
               THEN emit("NotAMapFile") /\ pc' = "done" /\ pos' = pos + type.h.pos
               ELSE /\ UNCHANGED events
                    /\ pc' = "sections"
                    /\ pos' = pos + skip(type.h, 4 + 8).pos
  /\ UNCHANGED <<loads, filename, player, version, sections, extra, header, grid,
                 rest>>

\* the section offset table
RunSections(I) ==
  /\ pc = "sections"
  /\ \E t \in I.tables :
       LET r == readSections(Handle(t))
       IN  sections' = r.val /\ pos' = pos + r.h.pos
  /\ pc' = "extra"
  /\ UNCHANGED <<loads, filename, player, version, extra, header, grid,
                 events, rest>>

\* the extra-data bitmap
RunExtra(I) ==
  /\ pc = "extra"
  /\ \E b \in I.bitmaps :
       LET r == readExtra(Handle(b))
       IN  extra' = r.extra /\ pos' = pos + r.h.pos
  /\ pc' = "header"
  /\ UNCHANGED <<loads, filename, player, version, sections, header, grid,
                 events, rest>>

(***************************************************************************)
(* loadHeader and loadTiles                                                *)
(***************************************************************************)
\* new Tile[tilesWide * tilesHigh]: the array, or std::bad_array_new_length thrown for
\* a negative length
NewTiles(w, h) ==
  [thrown |-> Mul32(w, h) < 0, tiles |-> [i \in 1..Mul32(w, h) |-> DefaultTile]]

\* seek(sections[0]); loadHeader(handle, version); seek(sections[1])
\* nothing catches the exception of new: it ends the process inside loadHeader, with
\* tiles still the array of the run before
RunHeader(I) ==
  /\ pc = "header"
  /\ \E hd \in I.headers, p0 \in SectionAt(0), p1 \in SectionAt(1) :
       /\ header' = [loaded |-> TRUE, worldID |-> hd.worldID, guid |-> hd.guid]
       /\ tilesHigh' = hd.tilesHigh
       /\ tilesWide' = hd.tilesWide
       /\ \E a \in {NewTiles(hd.tilesWide, hd.tilesHigh)} :
            IF a.thrown
              THEN /\ pc' = "crashed" /\ pos' = p0
                   /\ UNCHANGED <<tiles, written, x, y, offset>>
              ELSE /\ tiles' = a.tiles
                   /\ pos' = p1
                   /\ written' = {}
                   /\ x' = 0 /\ y' = 0 /\ offset' = 0
                   /\ pc' = IF hd.tilesWide > 0 /\ hd.tilesHigh > 0 THEN "tiles"
                                                                    ELSE "chests"
  /\ UNCHANGED <<loads, filename, player, version, sections, extra, overrun, oob,
                 events, rest>>

\* the rows a record copies itself to with y += rle + 1 in place of y += rle; y++
NextYMutant(yy, rle) == yy + rle + 2

\* y += rle, and the y++ of the for statement
NextY(yy, rle) == yy + rle + 1

\* the offsets the record decoded at off is written to: tiles[offset] and the
\* destOffset of each of the rle copies
RunOffsets(off, rle, w) == {off + r * w : r \in 0..Max(rle, 0)}

\* offset = destOffset, after the copies
NextOffset(off, rle, w) == off + w * (1 + Max(rle, 0))

\* the tile array after the record t is stored at the offsets ws that lie inside it
StoreTiles(ts, ws, t) ==
  [i \in 1..Len(ts) |-> IF (i - 1) \in ws THEN t ELSE ts[i]]

\* how far offset may run in the model
MaxOffset == 8

\* one record of loadTiles: the column loop's test, the decode and its copies
RunTile(I) ==
  /\ pc = "tiles"
  /\ offset <= MaxOffset
  /\ \E rec \in I.records, stray \in BOOLEAN, n \in {Len(tiles)} :
       \E r \in {TileLoad(Handle(rec), extra, stray,
                           IF offset < n THEN tiles[offset + 1] ELSE DefaultTile)} :
       \E ws \in {RunOffsets(offset, r.rle, tilesWide)}, ny \in {NextY(y, r.rle)} :
           /\ tiles' = StoreTiles(tiles, ws, r.tile)
           /\ written' = written \cup {o \in ws : o < n}
           /\ oob' = (oob \/ \E o \in ws : o >= n)
           /\ overrun' = (overrun \/ y + r.rle >= tilesHigh)
           /\ pos' = pos + r.h.pos
           /\ IF ny < tilesHigh
                THEN x' = x /\ y' = ny /\ offset' = NextOffset(offset, r.rle, tilesWide)
                ELSE x' = x + 1 /\ y' = 0 /\ offset' = x + 1
           \* a write outside the array may also end the process
           /\ pc' \in {IF ny < tilesHigh \/ x + 1 < tilesWide THEN "tiles" ELSE "chests"}
                        \cup {"crashed" : o \in {o \in ws : o >= n}}
  /\ UNCHANGED <<loads, filename, player, version, sections, extra, header,
                 tilesWide, tilesHigh, events, rest>>

(***************************************************************************)
(* The definitions registry (WorldInfo) the decoders look names up in      *)
(***************************************************************************)
\* info.items[id]: the name of an item, empty for an id the registry lacks
ItemName(id) ==
  CASE id = 1 -> <<73, 114, 111, 110>>
    [] id = 2 -> <<68, 105, 114, 116>>
    [] OTHER -> <<>>

\* info.prefixes[id]
PrefixName(id) ==
  CASE id = 1 -> <<76, 97, 114, 103, 101>>
    [] id = 2 -> <<77, 97, 115, 115>>
    [] OTHER -> <<>>

\* info.npcsById and info.npcsByName: the one NPC the registry holds
TheNPC == [head |-> 2, title |-> <<77>>, id |-> 17]

(***************************************************************************)
(* loadChests                                                              *)
(***************************************************************************)
\* one slot as it would be read with the test written stack >= 0
chestSlotMutant(h, items) ==
  LET stack == r16(h)
  IN  IF stack.val >= 0
        THEN LET id == r32(stack.h)
                 pf == r8(id.h)
             IN  [val |-> Append(items, [stack |-> stack.val, name |-> ItemName(id.val),
                                         prefix |-> PrefixName(pf.val)]),
                  h |-> pf.h]
        ELSE [val |-> items, h |-> stack.h]

\* int stack = handle->r16(); if (stack > 0) { item ...; chest.items.append(item); }
chestSlot(h, items) ==
  LET stack == r16(h)
  IN  IF stack.val > 0
        THEN LET id == r32(stack.h)
                 pf == r8(id.h)
             IN  [val |-> Append(items, [stack |-> stack.val, name |-> ItemName(id.val),
                                         prefix |-> PrefixName(pf.val)]),
                  h |-> pf.h]
        ELSE [val |-> items, h |-> stack.h]

RECURSIVE chestSlots(_, _, _, _)
\* for (j = 0; j < itemsPerChest; j++) the slot
chestSlots(h, itemsPerChest, j, items) ==
  IF j >= itemsPerChest THEN [val |-> items, h |-> h]
  ELSE LET s == chestSlot(h, items)
       IN  chestSlots(s.h, itemsPerChest, j + 1, s.val)

RECURSIVE chestLoop(_, _, _, _, _)
\* for (i = 0; i < numChests; i++) { x, y, name, the slots; chests.append(chest); }
chestLoop(h, numChests, itemsPerChest, i, acc) ==
  IF i >= numChests THEN [val |-> acc, h |-> h]
  ELSE LET cx == r32(h)
           cy == r32(cx.h)
           name == rs(cy.h)
           its == chestSlots(name.h, itemsPerChest, 0, <<>>)
       IN  chestLoop(its.h, numChests, itemsPerChest, i + 1,
                     Append(acc, [x |-> cx.val, y |-> cy.val, name |-> name.val,
                                  items |-> its.val]))

\* void World::loadChests(handle, version): chests.clear(), then the records
loadChests(h) ==
  LET numChests == r16(h)
      itemsPerChest == r16(numChests.h)
  IN  chestLoop(itemsPerChest.h, numChests.val, itemsPerChest.val, 0, <<>>)

(***************************************************************************)
(* loadSigns                                                               *)
(***************************************************************************)
RECURSIVE signLoop(_, _, _, _)
signLoop(h, numSigns, i, acc) ==
  IF i >= numSigns THEN [val |-> acc, h |-> h]
  ELSE LET text == rs(h)
           sx == r32(text.h)
           sy == r32(sx.h)
       IN  signLoop(sy.h, numSigns, i + 1,
                    Append(acc, [text |-> text.val, x |-> sx.val, y |-> sy.val]))

\* void World::loadSigns(handle, version): signs.clear(), then the records
loadSigns(h) ==
  LET numSigns == r16(h)
  IN  signLoop(numSigns.h, numSigns.val, 0, <<>>)

(***************************************************************************)
(* loadNPCs                                                                *)
(***************************************************************************)
\* rf: a float, kept as its four bytes' word
rf(h) == r32(h)

\* an NPC before any field is assigned
NewNPC ==
  [head |-> 0, sprite |-> 0, title |-> <<>>, name |-> <<>>, x |-> 0, y |-> 0,
   homeless |-> FALSE, homeX |-> 0, homeY |-> 0, townVariation |-> 0]

\* the sprite (version >= 190) or the title, and what the registry adds: [val, h]
npcKind(h, v, withHead) ==
  IF v >= 190
    THEN LET sp == r32(h)
             known == sp.val = TheNPC.id
         IN  [val |-> [NewNPC EXCEPT !.sprite = sp.val,
                                     !.head = IF known /\ withHead THEN TheNPC.head ELSE 0,
                                     !.title = IF known THEN TheNPC.title ELSE <<>>],
              h |-> sp.h]
    ELSE LET ti == rs(h)
             known == ti.val = TheNPC.title
         IN  [val |-> [NewNPC EXCEPT !.title = ti.val,
                                     !.head = IF known /\ withHead THEN TheNPC.head ELSE 0,
                                     !.sprite = IF known THEN TheNPC.id ELSE 0],
              h |-> ti.h]

RECURSIVE homelessLoop(_, _, _, _)
\* version >= 140: while (handle->r8()) { a travelling NPC; npcs.append(npc); }, the
\* last loop of loadNPCs: [npcs, shimmered, h]
homelessLoop(h, v, acc, shim) ==
  LET more == r8(h)
  IN  IF more.val = 0 THEN [npcs |-> acc, shimmered |-> shim, h |-> more.h]
      ELSE LET k == npcKind(more.h, v, FALSE)
               nx == rf(k.h)
               ny == rf(nx.h)
           IN  homelessLoop(ny.h, v,
                            Append(acc, [k.val EXCEPT !.name = <<>>, !.x = nx.val,
                                           !.y = ny.val, !.homeless = TRUE]),
                            shim)

RECURSIVE homedLoop(_, _, _, _)
\* while (handle->r8()) { a town NPC; npcs.append(npc); }, and what follows it
homedLoop(h, v, acc, shim) ==
  LET more == r8(h)
  IN  IF more.val = 0
        THEN IF v >= 140 THEN homelessLoop(more.h, v, acc, shim)
             ELSE [npcs |-> acc, shimmered |-> shim, h |-> more.h]
      ELSE LET k == npcKind(more.h, v, TRUE)
               name == rs(k.h)
               nx == rf(name.h)
               ny == rf(nx.h)
               hl == r8(ny.h)
               hx == r32(hl.h)
               hy == r32(hx.h)
               hasTv == IF v >= 213 THEN r8(hy.h) ELSE [val |-> 0, h |-> hy.h]
               tv == IF hasTv.val # 0 THEN r32(hasTv.h) ELSE [val |-> 0, h |-> hasTv.h]
           IN  homedLoop(tv.h, v,
                         Append(acc, [k.val EXCEPT !.name = name.val, !.x = nx.val,
                                        !.y = ny.val, !.homeless = hl.val # 0,
                                        !.homeX = hx.val, !.homeY = hy.val,
                                        !.townVariation = tv.val]),
                         shim)

RECURSIVE shimmerLoop(_, _, _, _, _)
\* for (i = 0; i < num; i++) shimmered[handle->r32()] = true; and what follows it
shimmerLoop(h, num, i, shim, v) ==
  IF i >= num THEN homedLoop(h, v, <<>>, shim)
  ELSE LET id == r32(h)
       IN  shimmerLoop(id.h, num, i + 1, shim \cup {id.val}, v)

\* void World::loadNPCs(handle, version) on the set shimmered: npcs.clear(), the
\* shimmered ids (version >= 268), the two lists: [npcs, shimmered, h]
loadNPCs(h, v, shim) ==
  IF v >= 268
    THEN LET num == r32(h) IN shimmerLoop(num.h, num.val, 0, shim, v)
    ELSE homedLoop(h, v, <<>>, shim)

(***************************************************************************)
(* loadDummies, loadEntities, loadPressurePlates, loadTownManager          *)
(***************************************************************************)
\* a loop that reads and drops n records of len bytes each: the handle after it
dropRecords(h, n, len) == skip(h, Max(n, 0) * len)

\* void World::loadDummies: numDummies, then x and y of each, dropped
loadDummies(h) ==
  LET n == r32(h)
  IN  dropRecords(n.h, n.val, 4)

\* int type = handle->r8(); switch (type) { case 0, case 1, case 2 }: [val, h, known]
entityRecord(h, acc) ==
  LET type == r8(h)
      id == r32(type.h)
      ex == r16(id.h)
      ey == r16(ex.h)
  IN  CASE type.val = 0 ->
             LET npc == r16(ey.h)
             IN  [val |-> Append(acc, [kind |-> "TrainingDummy", id |-> id.val,
                                       x |-> ex.val, y |-> ey.val, npc |-> npc.val]),
                  h |-> npc.h, known |-> TRUE]
        [] type.val = 1 ->
             LET itemid == r16(ey.h)
                 prefix == r8(itemid.h)
                 stack == r16(prefix.h)
             IN  [val |-> Append(acc, [kind |-> "ItemFrame", id |-> id.val, x |-> ex.val,
                                       y |-> ey.val, itemid |-> itemid.val,
                                       prefix |-> prefix.val, stack |-> stack.val]),
                  h |-> stack.h, known |-> TRUE]
        [] type.val = 2 ->
             LET t == r8(ey.h)
                 on == r8(t.h)
             IN  [val |-> Append(acc, [kind |-> "LogicSensor", id |-> id.val, x |-> ex.val,
                                       y |-> ey.val, type |-> t.val, on |-> on.val # 0]),
                  h |-> on.h, known |-> TRUE]
        [] OTHER -> [val |-> acc, h |-> type.h, known |-> FALSE]

RECURSIVE entityLoop(_, _, _, _, _)
\* for (i = 0; i < numEntities; i++) the record: [val, h, known]
entityLoop(h, numEntities, i, acc, known) ==
  IF i >= numEntities THEN [val |-> acc, h |-> h, known |-> known]
  ELSE LET e == entityRecord(h, acc)
       IN  entityLoop(e.h, numEntities, i + 1, e.val, known /\ e.known)

\* void World::loadEntities: entities.clear(), then the records; known tells whether
\* every record was of kind 0, 1 or 2
loadEntities(h) ==
  LET n == r32(h)
  IN  entityLoop(n.h, n.val, 0, <<>>, TRUE)

\* void World::loadPressurePlates: numPlates, then x and y of each, dropped
loadPressurePlates(h) ==
  LET n == r32(h)
  IN  dropRecords(n.h, n.val, 8)

\* void World::loadTownManager: numRooms, then NPC, x and y of each, dropped
loadTownManager(h) ==
  LET n == r32(h)
  IN  dropRecords(n.h, n.val, 12)

(***************************************************************************)
(* loadBestiary                                                            *)
(***************************************************************************)
\* kills[npc] = count, kills a set of <<name, count>> with one pair a name
SetKill(ks, npc, count) == {p \in ks : p[1] # npc} \cup {<<npc, count>>}

RECURSIVE killLoop(_, _, _, _)
\* for (i = 0; i < numKills; i++) { npc = rs(); kills[npc] = r32(); }
killLoop(h, numKills, i, ks) ==
  IF i >= numKills THEN [val |-> ks, h |-> h]
  ELSE LET npc == rs(h)
           count == r32(npc.h)
       IN  killLoop(count.h, numKills, i + 1, SetKill(ks, npc.val, count.val))

RECURSIVE stringLoop(_, _, _, _)
\* for (i = 0; i < n; i++) list.append(handle->rs());
stringLoop(h, n, i, list) ==
  IF i >= n THEN [val |-> list, h |-> h]
  ELSE LET str == rs(h)
       IN  stringLoop(str.h, n, i + 1, Append(list, str.val))

\* int numKills = handle->r32(); and the loop
readKills(h, ks) == LET numKills == r32(h) IN killLoop(numKills.h, numKills.val, 0, ks)

\* int numSights = handle->r32(); and the loop, for numChat alike
readStrings(h, list) == LET n == r32(h) IN stringLoop(n.h, n.val, 0, list)

\* void World::loadBestiary on the World's kills, seen and chats: [kills, seen, chats, h]
loadBestiary(h, ks, sn, ch) ==
  LET k == readKills(h, ks)
      s == readStrings(k.h, sn)
      c == readStrings(s.h, ch)
  IN  [kills |-> k.val, seen |-> s.val, chats |-> c.val, h |-> c.h]

(***************************************************************************)
(* The player-map overlay.  A companion file is [exists, head, body]: head *)
(* the file's bytes from its version word on, body what inflate yields     *)
(* from the bytes that follow head (version >= 93).  The overlay's state   *)
(* is [h, tiles, oob, events].                                             *)
(***************************************************************************)
\* tiles[o].setSeen(s) for every o of offs inside the array
SeenAt(ts, offs, s) ==
  [i \in 1..Len(ts) |-> IF (i - 1) \in offs THEN setSeen(ts[i], s) ELSE ts[i]]

\* the overlay's state after setSeen(s) at offs and the reads up to h
Marked(st, h, offs, s) ==
  [st EXCEPT !.h = h,
             !.tiles = SeenAt(st.tiles, offs, s),
             !.oob = st.oob \/ \E o \in offs : o >= Len(st.tiles)]

RECURSIVE player1Rows(_, _, _, _, _, _)
\* for (y = 0; y < tilesHigh; y++, offset += tilesWide) the cell and its run
player1Rows(st, v, w, hh, off, yy) ==
  IF yy >= hh THEN st
  ELSE LET present == r8(st.h)
           data == IF present.val # 0
                     THEN skip(present.h, (IF v <= 77 THEN 1 ELSE 2) + 2
                                          + (IF v >= 50 THEN 1 ELSE 0))
                     ELSE present.h
           rle == r16(data)
           n == Max(rle.val, 0)
           offs == {off + k * w : k \in (IF present.val # 0 THEN 0 ELSE 1)..n}
       IN  player1Rows(Marked(st, rle.h, offs, present.val # 0), v, w, hh,
                       off + (n + 1) * w, yy + n + 1)

RECURSIVE player1Cols(_, _, _, _, _)
\* for (x = 0; x < tilesWide; x++) { offset = x; the rows }
player1Cols(st, v, w, hh, xx) ==
  IF xx >= w THEN st
  ELSE player1Cols(player1Rows(st, v, w, hh, xx, 0), v, w, hh, xx + 1)

\* void World::loadPlayer1(handle, version)
loadPlayer1(st, v, w, hh) ==
  LET name == rs(st.h)
  IN  player1Cols([st EXCEPT !.h = skip(name.h, 12)], v, w, hh, 0)

\* one cell of the v2 body and its run: [st, n], n the cells the run advanced
player2Cell(st, off) ==
  LET flags == r8(st.h)
      color == IF BitAnd(flags.val, 1) # 0 THEN skip(flags.h, 1) ELSE flags.h
      tile == (flags.val \div 2) % 8
      id == IF tile \in {1, 2, 7}
              THEN skip(color, IF BitAnd(flags.val, 16) # 0 THEN 2 ELSE 1)
              ELSE color
      light == IF BitAnd(flags.val, 32) # 0 THEN r8(id) ELSE [val |-> 255, h |-> id]
      sel == (flags.val \div 64) % 4
      rle == CASE sel = 1 -> r8(light.h)
               [] sel = 2 -> r16(light.h)
               [] OTHER -> [val |-> 0, h |-> light.h]
      n == Max(rle.val, 0)
      after == IF tile # 0 /\ light.val # 255 THEN skip(rle.h, n) ELSE rle.h
  IN  [st |-> Marked(st, after, {off + k : k \in 0..n}, tile # 0), n |-> n]

RECURSIVE player2Cells(_, _, _, _, _, _)
\* for (y...) for (x = 0; x < tilesWide; x++, offset++) the cell
player2Cells(st, w, hh, off, xx, yy) ==
  IF yy >= hh THEN st
  ELSE IF xx >= w THEN player2Cells(st, w, hh, off, 0, yy + 1)
  ELSE LET c == player2Cell(st, off)
       IN  player2Cells(c.st, w, hh, off + c.n + 1, xx + c.n + 1, yy)

\* loadPlayer2 from the name on: the counts, the two bitmaps and their data, the body
player2Body(st, v, w, hh, body) ==
  LET name == rs(st.h)
      numTiles == r16(skip(name.h, 12))
      numWalls == r16(numTiles.h)
      tilePresent == readBits(skip(numWalls.h, 8), numTiles.val)
      wallPresent == readBits(tilePresent.h, numWalls.val)
      dropped == Cardinality({i \in 1..Len(tilePresent.val) : tilePresent.val[i]})
                 + Cardinality({i \in 1..Len(wallPresent.val) : wallPresent.val[i]})
      kept == skip(wallPresent.h, dropped)
      cells == IF v >= 93 THEN Handle(body) ELSE kept
  IN  player2Cells([st EXCEPT !.h = cells], w, hh, 0, 0, 0)

\* void World::loadPlayer2(handle, version)
loadPlayer2(st, v, w, hh, body) ==
  IF v >= 135
    THEN LET magic == read(st.h, 7)
             type == r8(magic.h)
         IN  IF magic.val # Relogic
               THEN [st EXCEPT !.h = magic.h,
                               !.events = Append(st.events, "NotARelogicMap")]
               ELSE IF type.val # 1
                 THEN [st EXCEPT !.h = type.h,
                                 !.events = Append(st.events, "NotAPlayerMap")]
                 ELSE player2Body([st EXCEPT !.h = skip(type.h, 4 + 8)], v, w, hh, body)
    ELSE player2Body(st, v, w, hh, body)

\* the digit d of base 16, as QString::arg writes it
HexDigit(d) ==
  <<"0", "1", "2", "3", "4", "5", "6", "7", "8", "9", "a", "b", "c", "d", "e", "f">>[d + 1]

RECURSIVE Digits(_)
\* the digits of n in base 16, without leading zeros
Digits(n) == IF n < 16 THEN <<HexDigit(n)>> ELSE Digits(n \div 16) \o <<HexDigit(n % 16)>>

\* a text filled with '0' on the left up to the field width
Pad(text, width) == [k \in 1..(width - Len(text)) |-> "0"] \o text

\* .arg(n, width, 16, QChar('0')) for a quint16 n
Arg(n, width) == Pad(Digits(n), width)

\* a quint32 as its two 16-bit halves, from the bytes b0 (lowest) to b3
U32(b0, b1, b2, b3) == [hi |-> b3 * 256 + b2, lo |-> b1 * 256 + b0]

\* .arg(u, 8, 16, QChar('0')) for a quint32 u
ArgU32(u) ==
  Pad(IF u.hi = 0 THEN Digits(u.lo) ELSE Digits(u.hi) \o Pad(Digits(u.lo), 4), 8)

\* the name "/%1-%2-%3-%4-%5-%6.map", as it would be with a hyphen before %6
GuidNameMutant(g) ==
  <<"/">> \o ArgU32(U32(g[1], g[2], g[3], g[4]))
  \o <<"-">> \o Arg(g[5] + g[6] * 256, 4)
  \o <<"-">> \o Arg(g[7] + g[8] * 256, 4)
  \o <<"-">> \o Arg(g[9] * 256 + g[10], 4)
  \o <<"-">> \o Arg(g[11] * 256 + g[12], 4)
  \o <<"-">> \o ArgU32(U32(g[16], g[15], g[14], g[13]))
  \o <<".", "m", "a", "p">>

\* what loadPlayer appends to the path for the guid g: u1 to u6 from the 16 bytes,
\* written into "/%1-%2-%3-%4-%5%6.map"
GuidName(g) ==
  <<"/">> \o ArgU32(U32(g[1], g[2], g[3], g[4]))
  \o <<"-">> \o Arg(g[5] + g[6] * 256, 4)
  \o <<"-">> \o Arg(g[7] + g[8] * 256, 4)
  \o <<"-">> \o Arg(g[9] * 256 + g[10], 4)
  \o <<"-">> \o Arg(g[11] * 256 + g[12], 4)
  \o ArgU32(U32(g[16], g[15], g[14], g[13]))
  \o <<".", "m", "a", "p">>

NoFile == [exists |-> FALSE, head |-> <<>>, body |-> <<>>]

\* the companion file loadPlayer opens: the one named by the guid when the header
\* has a guid and that file exists, else the one named by the worldID
MapFile(hdr, fs) == IF hdr.guid # <<>> /\ fs.byGuid.exists THEN fs.byGuid ELSE fs.byId

\* loadPlayer as it would be with the loop of the missing file one row short
loadPlayerMutant(ts, w, hh, hdr, fs) ==
  LET file == MapFile(hdr, fs)
      st == [h |-> Handle(file.head), tiles |-> ts, oob |-> FALSE, events |-> <<>>,
             fault |-> FALSE]
  IN  IF ~hdr.loaded
        THEN [h |-> Handle(<<>>), tiles |-> ts, oob |-> FALSE, events |-> <<>>,
              fault |-> TRUE]
      ELSE IF ~file.exists
        THEN [st EXCEPT !.tiles = SeenAt(ts, {yy * w + xx : xx \in 0..(w - 1),
                                                            yy \in 0..(hh - 2)}, TRUE)]
        ELSE LET v == r32(st.h)
             IN  IF v.val <= 91
                   THEN loadPlayer1([st EXCEPT !.h = v.h], v.val, w, hh)
                   ELSE loadPlayer2([st EXCEPT !.h = v.h], v.val, w, hh, file.body)

\* void World::loadPlayer() on a directory fs: [h, tiles, oob, events, fault]. A header
\* that was never loaded holds no worldID for header["worldID"]->toInt(): fault
loadPlayer(ts, w, hh, hdr, fs) ==
  LET file == MapFile(hdr, fs)
      st == [h |-> Handle(file.head), tiles |-> ts, oob |-> FALSE, events |-> <<>>,
             fault |-> FALSE]
  IN  IF ~hdr.loaded
        THEN [h |-> Handle(<<>>), tiles |-> ts, oob |-> FALSE, events |-> <<>>,
              fault |-> TRUE]
      ELSE IF ~file.exists
        THEN [st EXCEPT !.tiles = SeenAt(ts, {yy * w + xx : xx \in 0..(w - 1),
                                                            yy \in 0..(hh - 1)}, TRUE)]
        ELSE LET v == r32(st.h)
             IN  IF v.val <= 91
                   THEN loadPlayer1([st EXCEPT !.h = v.h], v.val, w, hh)
                   ELSE loadPlayer2([st EXCEPT !.h = v.h], v.val, w, hh, file.body)

(***************************************************************************)
(* The sections of World::run after the tiles                              *)
(***************************************************************************)
\* what no section after the tiles changes
frame == <<loads, filename, player, version, sections, extra, header, grid>>

\* seek(sections[2]); loadChests
RunChests(I) ==
  /\ pc = "chests"
  /\ \E d \in I.chests, p \in SectionAt(2) :
       \E r \in {loadChests(Handle(d))} :
           /\ chests' = r.val /\ pos' = p + r.h.pos
           /\ fresh' = [fresh EXCEPT !.chests = r.val]
  /\ pc' = "signs"
  /\ UNCHANGED <<frame, unknownKind, signs, npcs, entities, kills, seen, chats,
                 shimmered, events, lab>>

\* seek(sections[3]); loadSigns
RunSigns(I) ==
  /\ pc = "signs"
  /\ \E d \in I.signs, p \in SectionAt(3) :
       \E r \in {loadSigns(Handle(d))} :
           /\ signs' = r.val /\ pos' = p + r.h.pos
           /\ fresh' = [fresh EXCEPT !.signs = r.val]
  /\ pc' = "npcs"
  /\ UNCHANGED <<frame, unknownKind, chests, npcs, entities, kills, seen, chats,
                 shimmered, events, lab>>

\* seek(sections[4]); loadNPCs
RunNPCs(I) ==
  /\ pc = "npcs"
  /\ \E d \in I.npcs, p \in SectionAt(4) :
       \E r \in {loadNPCs(Handle(d), version, shimmered)},
          f \in {loadNPCs(Handle(d), version, fresh.shimmered)} :
           /\ npcs' = r.npcs /\ shimmered' = r.shimmered /\ pos' = p + r.h.pos
           /\ fresh' = [fresh EXCEPT !.npcs = f.npcs, !.shimmered = f.shimmered]
  /\ pc' = After("npcs", version)
  /\ UNCHANGED <<frame, unknownKind, chests, signs, entities, kills, seen, chats,
                 events, lab>>

\* seek(sections[5]); version >= 116: loadDummies (version < 122) or loadEntities
RunEntities(I) ==
  /\ pc = "entities"
  /\ \E d \in I.entities, p \in SectionAt(5) :
       IF version < 116
         THEN pos' = p /\ UNCHANGED <<entities, unknownKind, fresh>>
         ELSE IF version < 122
           THEN pos' = p + loadDummies(Handle(d)).pos
                /\ UNCHANGED <<entities, unknownKind, fresh>>
           ELSE \E r \in {loadEntities(Handle(d))} :
                    /\ entities' = r.val
                    /\ unknownKind' = ~r.known
                    /\ pos' = p + r.h.pos
                    /\ fresh' = [fresh EXCEPT !.entities = r.val]
  /\ pc' = After("entities", version)
  /\ UNCHANGED <<frame, chests, signs, npcs, kills, seen, chats, shimmered, events, lab>>

\* version >= 170: seek(sections[6]); loadPressurePlates
RunPressurePlates(I) ==
  /\ pc = "plates"
  /\ \E d \in I.plates, p \in SectionAt(6) :
       pos' = p + loadPressurePlates(Handle(d)).pos
  /\ pc' = After("plates", version)
  /\ UNCHANGED <<frame, events, rest>>

\* version >= 189: seek(sections[7]); loadTownManager
RunTownManager(I) ==
  /\ pc = "town"
  /\ \E d \in I.rooms, p \in SectionAt(7) :
       pos' = p + loadTownManager(Handle(d)).pos
  /\ pc' = After("town", version)
  /\ UNCHANGED <<frame, events, rest>>

\* version >= 210: seek(sections[8]); loadBestiary
RunBestiary(I) ==
  /\ pc = "bestiary"
  /\ \E d \in I.bestiary, p \in SectionAt(8) :
       \E r \in {loadBestiary(Handle(d), kills, seen, chats)},
          f \in {loadBestiary(Handle(d), fresh.kills, fresh.seen, fresh.chats)} :
           /\ kills' = r.kills /\ seen' = r.seen /\ chats' = r.chats
           /\ pos' = p + r.h.pos
           /\ fresh' = [fresh EXCEPT !.kills = f.kills, !.seen = f.seen,
                                     !.chats = f.chats]
  /\ pc' = After("bestiary", version)
  /\ UNCHANGED <<frame, unknownKind, chests, signs, npcs, entities, shimmered,
                 events, lab>>

\* version >= 220: seek(sections[9]); loadCreativePowers, which reads nothing
RunCreativePowers ==
  /\ pc = "creative"
  /\ \E p \in SectionAt(9) : pos' = p
  /\ pc' = After("creative", version)
  /\ UNCHANGED <<frame, events, rest>>

\* where a call may leave the process: a write outside the tile array may end it
Outcome(next, wroteOutside) == IF wroteOutside THEN {next, "crashed"} ELSE {next}

\* if (!player.isEmpty()) loadPlayer(); emit loaded(true);
RunPlayer(I) ==
  /\ pc = "player"
  /\ IF player = ""
       THEN emit("loaded") /\ pc' = "done" /\ UNCHANGED <<tiles, oob>>
       ELSE \E fs \in I.maps :
              \E r \in {loadPlayer(tiles, tilesWide, tilesHigh, header, fs)} :
                  /\ tiles' = r.tiles
                  /\ oob' = (oob \/ r.oob)
                  /\ pc' \in (IF r.fault THEN {"crashed"} ELSE Outcome("done", r.oob))
                  /\ events' = IF pc' = "done" THEN events \o r.events \o <<"loaded">>
                                               ELSE events \o r.events
  /\ UNCHANGED <<loads, filename, player, version, pos, sections, extra, header,
                 tilesWide, tilesHigh, x, y, offset, written, overrun, rest>>

\* the names a caller gives setPlayer: none, and that of a player file
PlayerNames == {"", "player.plr"}

\* void World::setPlayer(filename), called between two runs with the name and on the
\* directory fs
SetPlayerOn(name, fs) ==
  /\ pc \in {"idle", "done"}
  /\ player' = name
  /\ IF filename = ""
       THEN events' = <<>> /\ pc' = "idle" /\ UNCHANGED <<tiles, oob>>
       ELSE \E r \in {loadPlayer(tiles, tilesWide, tilesHigh, header, fs)} :
                  /\ tiles' = r.tiles
                  /\ oob' = (oob \/ r.oob)
                  /\ events' = r.events
                  /\ pc' \in (IF r.fault THEN {"crashed"} ELSE Outcome("idle", r.oob))
  /\ UNCHANGED <<loads, filename, version, pos, sections, extra, header,
                 tilesWide, tilesHigh, x, y, offset, written, overrun,
                 unknownKind, contents, fresh>>

\* void World::setPlayer(filename), called between two runs
SetPlayer(I) ==
  \E name \in PlayerNames, fs \in I.maps : SetPlayerOn(name, fs) /\ UNCHANGED lab

\* setPlayer, with the directory it found and the tiles it started from kept in inp
\* and what the overlay wrote outside the tile array in out
SetPlayerSeen(I) ==
  \E name \in PlayerNames, fs \in I.maps :
    /\ SetPlayerOn(name, fs)
    /\ inp' = [kind |-> "overlay", ran |-> filename # "" /\ header.loaded, fs |-> fs,
               before |-> tiles]
    /\ out' = [kind |-> "overlay",
               oob |-> filename # ""
                       /\ loadPlayer(tiles, tilesWide, tilesHigh, header, fs).oob]

\* the index of the section table the step at p reads (the header's step reads 0 and 1)
SectionIndex(p) ==
  CASE p = "header" -> 1 [] p = "chests" -> 2 [] p = "signs" -> 3 [] p = "npcs" -> 4
    [] p = "entities" -> 5 [] p = "plates" -> 6 [] p = "town" -> 7
    [] p = "bestiary" -> 8 [] p = "creative" -> 9

\* sections[k] with k outside the table may end the process
RunCrash ==
  /\ pc \in {"header", "chests", "signs", "npcs", "entities", "plates", "town",
            "bestiary", "creative"}
  /\ SectionIndex(pc) >= Len(sections)
  /\ pc' = "crashed"
  /\ UNCHANGED <<loads, filename, player, version, pos, sections, extra, header, grid,
                 events, rest>>

\* the steps of the World on the inputs I
Step(I) ==
  \/ RunVersion(I) \/ RunMagic(I) \/ RunSections(I) \/ RunExtra(I) \/ RunHeader(I)
  \/ RunTile(I) \/ RunChests(I) \/ RunSigns(I) \/ RunNPCs(I) \/ RunEntities(I)
  \/ RunPressurePlates(I) \/ RunTownManager(I) \/ RunBestiary(I)
  \/ RunCreativePowers \/ RunPlayer(I) \/ SetPlayer(I) \/ SetFilename \/ RunCrash

(***************************************************************************)
(* Writing the bytes of an input                                           *)
(***************************************************************************)
\* a 16-bit and a 32-bit word, little-endian, two's complement
LE16(n) == LET m == (n + 65536) % 65536 IN <<m % 256, m \div 256>>
LE32(n) ==
  LET m == IF n >= 0 THEN n ELSE (n + 2147483647) + 1
  IN  <<m % 256, (m \div 256) % 256, (m \div 65536) % 256,
        (m \div 16777216) + (IF n >= 0 THEN 0 ELSE 128)>>

\* a string of fewer than 128 bytes, behind its length
Str(bytes) == <<Len(bytes)>> \o bytes

RECURSIVE Concat(_)
\* the sequences of a sequence, one after the other
Concat(ss) == IF ss = <<>> THEN <<>> ELSE Head(ss) \o Concat(Tail(ss))

\* the sequences over S of length 0..n
SeqsUpTo(S, n) == UNION {[1..k -> S] : k \in 0..n}

(***************************************************************************)
(* The files the World is run on                                           *)
(***************************************************************************)
Zeros(n) == [k \in 1..n |-> 0]

\* the magic m, the file type t, revision and favorites
MagicBytes(m, t) == m \o <<t>> \o Zeros(4 + 8)

\* a section table of n offsets
TableBytes(n) == LE16(n) \o Concat([k \in 1..n |-> LE32(100 * k)])

\* two tile types, the second with u and v
TwoTypes == LE16(2) \o <<2>>

\* a header a file may hold
HeaderOf(w, h, guid) == [tilesWide |-> w, tilesHigh |-> h, worldID |-> 42, guid |-> guid]
AGuid == <<1, 2, 3, 4, 5, 6, 7, 8, 9, 10, 11, 12, 13, 14, 15, 16>>

\* sections without records
NoChests == LE16(0) \o LE16(0)
NoSigns == LE16(0)
NoNPCs == Zeros(6)
NoRecords == LE32(0)
NoBestiary == LE32(0) \o LE32(0) \o LE32(0)

\* sections with records
OneChest ==
  LE16(1) \o LE16(2) \o LE32(3) \o LE32(4) \o Str(<<67>>)
  \o LE16(5) \o LE32(1) \o <<2>> \o LE16(0)
OneSign == LE16(1) \o Str(<<72, 105>>) \o LE32(5) \o LE32(6)
\* version >= 268: one shimmered id, one town NPC, no travelling NPC
OneNPC ==
  LE32(1) \o LE32(17) \o <<1>> \o LE32(17) \o Str(<<65>>) \o LE32(0) \o LE32(0)
  \o <<0>> \o LE32(1) \o LE32(2) \o <<0>> \o <<0, 0>>
ADummy == <<0>> \o LE32(7) \o LE16(1) \o LE16(2) \o LE16(3)
AFrame == <<1>> \o LE32(8) \o LE16(1) \o LE16(2) \o LE16(9) \o <<1>> \o LE16(1)
ASensor == <<2>> \o LE32(9) \o LE16(1) \o LE16(2) \o <<1, 1>>
ThreeEntities == LE32(3) \o ADummy \o AFrame \o ASensor
\* a record of kind 3 before a training dummy
UnknownEntity == LE32(2) \o <<3>> \o ADummy
OneKill ==
  LE32(1) \o Str(<<90>>) \o LE32(4) \o LE32(1) \o Str(<<90>>) \o LE32(1) \o Str(<<89>>)

\* a v2 companion map from its version word to the counts and bitmaps
Map2Head(v, m, t) ==
  LE32(v) \o MagicBytes(m, t) \o Str(<<80>>) \o Zeros(12) \o LE16(0) \o LE16(0) \o Zeros(8)

\* the directory of the player: no map, a v2 map of one run of two seen cells, a v2
\* map with another magic, one of another file type
NoMaps == [byGuid |-> NoFile, byId |-> NoFile]
SeenMap ==
  [byGuid |-> [exists |-> TRUE, head |-> Map2Head(200, Relogic, 1), body |-> <<66, 0, 1>>],
   byId |-> NoFile]
BadMagicMap ==
  [byGuid |-> NoFile,
   byId |-> [exists |-> TRUE, head |-> Map2Head(200, Zeros(7), 1), body |-> <<>>]]
WorldFileAsMap ==
  [byGuid |-> NoFile,
   byId |-> [exists |-> TRUE, head |-> Map2Head(200, Relogic, 2), body |-> <<>>]]

(***************************************************************************)
(* The loader on files of every version                                    *)
(***************************************************************************)
\* how many runs a behaviour starts
MaxLoads == 1

MainFiles ==
  [loads |-> MaxLoads,
   versions |-> {LE32(v) : v \in {87, 100, 118, 130, 150, 175, 195, 215, 279, 280}},
   magics |-> {MagicBytes(Relogic, 2), MagicBytes(Zeros(7), 2), MagicBytes(Relogic, 1)},
   tables |-> {TableBytes(11), TableBytes(6)},
   bitmaps |-> {TwoTypes},
   headers |-> {HeaderOf(1, 2, AGuid), HeaderOf(-1, 2, AGuid),
               HeaderOf(-1073741824, 4, AGuid), HeaderOf(46341, 46341, AGuid)},
   records |-> {<<0>>, <<64, 1>>},
   chests |-> {NoChests}, signs |-> {NoSigns}, npcs |-> {NoNPCs},
   entities |-> {NoRecords, ThreeEntities, UnknownEntity},
   plates |-> {NoRecords}, rooms |-> {NoRecords}, bestiary |-> {NoBestiary},
   maps |-> {NoMaps, SeenMap, BadMagicMap, WorldFileAsMap}]

Init == WorldInit /\ inp = NoLab /\ out = NoLab

Next == Step(MainFiles)

Spec == Init /\ [][Next]_vars

(***************************************************************************)
(* The loader on tile sections                                             *)
(***************************************************************************)
\* records: an empty tile, an active tile of type 0, one of type 1 with u and v,
\* an empty run of 2, an active run of 3, a run length of -1
TileFiles ==
  [loads |-> 1,
   versions |-> {LE32(100)},
   tables |-> {TableBytes(6)},
   bitmaps |-> {TwoTypes},
   headers |-> {HeaderOf(1, 1, <<>>), HeaderOf(1, 3, <<>>), HeaderOf(2, 2, <<>>)},
   records |-> {<<0>>, <<2, 0>>, <<2, 1, 16, 0, 32, 0>>, <<64, 1>>, <<66, 0, 2>>,
                <<128, 255, 255>>},
   chests |-> {NoChests}, signs |-> {NoSigns}, npcs |-> {NoNPCs},
   entities |-> {NoRecords},
   maps |-> {NoMaps}]

NextTiles ==
  \/ RunVersion(TileFiles) \/ RunSections(TileFiles) \/ RunExtra(TileFiles)
  \/ RunHeader(TileFiles) \/ RunTile(TileFiles) \/ RunChests(TileFiles)
  \/ RunSigns(TileFiles) \/ RunNPCs(TileFiles) \/ RunEntities(TileFiles)
  \/ RunPlayer(TileFiles) \/ SetFilename

SpecTiles == Init /\ [][NextTiles]_vars

(***************************************************************************)
(* The loader run again on the same World                                  *)
(***************************************************************************)
\* how many runs a behaviour of SpecReload starts
MaxReloads == 2

ReloadFiles ==
  [loads |-> MaxReloads,
   versions |-> {LE32(118), LE32(279)},
   magics |-> {MagicBytes(Relogic, 2)},
   tables |-> {TableBytes(11)},
   bitmaps |-> {TwoTypes},
   headers |-> {HeaderOf(1, 1, <<>>)},
   records |-> {<<0>>},
   chests |-> {NoChests, OneChest}, signs |-> {NoSigns, OneSign},
   npcs |-> {NoNPCs, OneNPC},
   entities |-> {NoRecords, ThreeEntities},
   plates |-> {NoRecords}, rooms |-> {NoRecords},
   bestiary |-> {NoBestiary, OneKill},
   maps |-> {NoMaps}]

NextReload ==
  \/ RunVersion(ReloadFiles) \/ RunMagic(ReloadFiles) \/ RunSections(ReloadFiles)
  \/ RunExtra(ReloadFiles) \/ RunHeader(ReloadFiles) \/ RunTile(ReloadFiles)
  \/ RunChests(ReloadFiles) \/ RunSigns(ReloadFiles) \/ RunNPCs(ReloadFiles)
  \/ RunEntities(ReloadFiles) \/ RunPressurePlates(ReloadFiles)
  \/ RunTownManager(ReloadFiles) \/ RunBestiary(ReloadFiles) \/ RunCreativePowers
  \/ RunPlayer(ReloadFiles) \/ SetFilename

SpecReload == Init /\ [][NextReload]_vars

(***************************************************************************)
(* setPlayer on a loaded World of two columns of two rows                  *)
(***************************************************************************)
\* a v1 companion map: the version word, the name, id and sizes, the cells
Map1(cells) ==
  [exists |-> TRUE, head |-> LE32(80) \o Str(<<80>>) \o Zeros(12) \o cells, body |-> <<>>]

\* a v2 companion map and what inflate yields from its tail
Map2(cells) == [exists |-> TRUE, head |-> Map2Head(200, Relogic, 1), body |-> cells]

\* a v1 cell that is present (tile id, light, misc, misc2) and one that is not,
\* each with its run length
Present1(rle) == <<1, 0, 0, 0, 0, 0>> \o LE16(rle)
Absent1(rle) == <<0>> \o LE16(rle)

\* v1 maps of 2 x 2 cells: no cell present, cell by cell and run by run; every cell
\* present; a run of 2 from the first row
EmptyMap1 == Map1(Absent1(0) \o Absent1(0) \o Absent1(0) \o Absent1(0))
EmptyRunsMap1 == Map1(Absent1(1) \o Absent1(1))
FullMap1 == Map1(Present1(1) \o Present1(1))
OverrunMap1 == Map1(Present1(2) \o Present1(1))

\* v2 maps of 2 x 2 cells: no cell of a kind, cell by cell and in one run; one run
\* of a kind over every cell; one row of a kind and the other of none; a run of 4
\* from the first cell
EmptyMap2 == Map2(<<0, 0, 0, 0>>)
EmptyRunMap2 == Map2(<<64, 3>>)
FullMap2 == Map2(<<66, 0, 3>>)
UpperMap2 == Map2(<<66, 0, 1, 64, 1>>)
LowerMap2 == Map2(<<64, 1, 66, 0, 1>>)
OverrunMap2 == Map2(<<66, 0, 4>>)

\* the present maps without a cell, and those whose run leaves the grid
EmptyMaps == {EmptyMap1, EmptyRunsMap1, EmptyMap2, EmptyRunMap2}
OverrunMaps == {OverrunMap1, OverrunMap2}

\* the directory with the file f under the name of the guid, or of the worldID
ByGuid(f) == [byGuid |-> f, byId |-> NoFile]
ById(f) == [byGuid |-> NoFile, byId |-> f]

OverlayFiles ==
  [loads |-> 1,
   versions |-> {LE32(100)},
   tables |-> {TableBytes(6)},
   bitmaps |-> {TwoTypes},
   headers |-> {HeaderOf(2, 2, AGuid), HeaderOf(2, 2, <<>>)},
   records |-> {<<64, 1>>, <<2, 1, 16, 0, 32, 0>>, <<24, 7>>},
   chests |-> {NoChests}, signs |-> {NoSigns}, npcs |-> {NoNPCs},
   entities |-> {NoRecords},
   maps |-> {NoMaps, ByGuid(FullMap2), ById(EmptyMap1), ById(EmptyRunsMap1),
             ByGuid(EmptyMap2), ById(EmptyRunMap2), ById(FullMap1),
             ById(OverrunMap1), ByGuid(OverrunMap2), ById(UpperMap2),
             ByGuid(LowerMap2)}]

NextOverlay ==
  \/ RunVersion(OverlayFiles) \/ RunSections(OverlayFiles) \/ RunExtra(OverlayFiles)
  \/ RunHeader(OverlayFiles) \/ RunTile(OverlayFiles) \/ RunChests(OverlayFiles)
  \/ RunSigns(OverlayFiles) \/ RunNPCs(OverlayFiles) \/ RunEntities(OverlayFiles)
  \/ RunPlayer(OverlayFiles) \/ SetPlayerSeen(OverlayFiles) \/ SetFilename

SpecOverlay == Init /\ [][NextOverlay]_vars

(***************************************************************************)
(* Tile::load applied on its own                                           *)
(***************************************************************************)
\* how many bytes follow the first flag byte of a record at most
TailLen == 5

\* first flag bytes: nothing, active, wall, the three liquids, a 2-byte type, the
\* run lengths, the further flag bytes
TileF1 == {0, 2, 4, 8, 16, 24, 34, 64, 66, 130, 192, 1, 3, 7, 27}

\* the bytes that follow: 89 is 0x59, as flags2 a green wire, a slope and flags3, as
\* flags3 color, wall color and a 2-byte wall
TileBytes == {0, 1, 89}

\* a tile some earlier use left in memory
StaleTile == [DefaultTile EXCEPT !.type = 5, !.liquid = 7, !.color = 3, !.flags = 519]

\* the records that are exactly as long as Tile::load reads
TileInputs ==
  {i \in [kind : {"tile"},
          bytes : {<<f>> \o t : f \in TileF1, t \in SeqsUpTo(TileBytes, TailLen)},
          extra : {<<FALSE, TRUE>>}, stray : BOOLEAN,
          old : {DefaultTile, StaleTile}] :
     TileLoad(Handle(i.bytes), i.extra, i.stray, i.old).h.pos = Len(i.bytes)}

InitTile == WorldInit /\ inp \in TileInputs /\ out = NoLab

DecodeTile ==
  /\ inp.kind = "tile" /\ out = NoLab
  /\ out' = [kind |-> "tile",
             r |-> TileLoad(Handle(inp.bytes), inp.extra, inp.stray, inp.old)]
  /\ UNCHANGED <<pc, loads, filename, player, version, pos, sections, extra, header,
                 grid, unknownKind, contents, events, fresh, inp>>

SpecTile == InitTile /\ [][DecodeTile]_vars

(***************************************************************************)
(* The bitmap reader applied on its own                                    *)
(***************************************************************************)
\* how many tile types a bitmap holds at most
MaxBits == 9

BitmapBytes == {0, 1, 128, 165, 255}

BitmapInputs ==
  {[kind |-> "bitmap", n |-> n, bytes |-> LE16(n) \o b] :
     n \in -1..MaxBits, b \in SeqsUpTo(BitmapBytes, (MaxBits + 7) \div 8)}

InitBitmap ==
  /\ WorldInit /\ out = NoLab
  /\ inp \in {i \in BitmapInputs : readExtra(Handle(i.bytes)).h.pos = Len(i.bytes)}

DecodeBitmap ==
  /\ inp.kind = "bitmap" /\ out = NoLab
  /\ out' = [kind |-> "bitmap", r |-> readExtra(Handle(inp.bytes))]
  /\ UNCHANGED <<pc, loads, filename, player, version, pos, sections, extra, header,
                 grid, unknownKind, contents, events, fresh, inp>>

SpecBitmap == InitBitmap /\ [][DecodeBitmap]_vars

(***************************************************************************)
(* loadChests applied on its own                                           *)
(***************************************************************************)
\* how many chests a stream holds and how many slots a chest has at most
MaxChests == 1
MaxSlots == 3

\* what a slot may hold: nothing, a negative stack, an item
SlotKinds == {"empty", "negative", "full"}

\* the slot j of a chest: the item and the prefix of a full slot follow its place
SlotOf(j, kind) ==
  [stack |-> CASE kind = "empty" -> 0
               [] kind = "negative" -> -1
               [] kind = "full" -> IF j % 2 = 1 THEN 5 ELSE 300,
   id |-> j, prefix |-> j % 3]

\* the bytes of a slot: the stack, and the item id and the prefix of a stack > 0
SlotBytes(sl) ==
  LE16(sl.stack) \o (IF sl.stack > 0 THEN LE32(sl.id) \o <<sl.prefix>> ELSE <<>>)

\* the names a chest may bear: none, "A"
ChestNames == {<<>>, <<65>>}

\* the i-th chest of a stream, with the name nm and the slots of the kinds ks
ChestAt(i, nm, ks) ==
  [x |-> i, y |-> 2 * i, name |-> nm, slots |-> [j \in 1..Len(ks) |-> SlotOf(j, ks[j])]]

ChestBytes(c) ==
  LE32(c.x) \o LE32(c.y) \o Str(c.name)
  \o Concat([j \in 1..Len(c.slots) |-> SlotBytes(c.slots[j])])

\* the streams of up to MaxChests chests of n slots each, the first of any name
ChestLists(n) ==
  UNION {{[i \in 1..k |-> ChestAt(i, IF i = 1 THEN nm ELSE <<64 + i>>, f[i])] :
            f \in [1..k -> [1..n -> SlotKinds]], nm \in ChestNames} :
         k \in 0..MaxChests}

ChestInput(n, cs) ==
  [kind |-> "chests", n |-> n, chests |-> cs,
   bytes |-> LE16(Len(cs)) \o LE16(n) \o Concat([i \in 1..Len(cs) |-> ChestBytes(cs[i])])]

\* the streams of chests of up to most slots
ChestInputs(most) == UNION {{ChestInput(n, cs) : cs \in ChestLists(n)} : n \in 0..most}

InitChests == WorldInit /\ inp \in ChestInputs(MaxSlots) /\ out = NoLab

DecodeChests ==
  /\ inp.kind = "chests" /\ out = NoLab
  /\ out' = [kind |-> "chests", r |-> loadChests(Handle(inp.bytes))]
  /\ UNCHANGED <<pc, loads, filename, player, version, pos, sections, extra, header,
                 grid, unknownKind, contents, events, fresh, inp>>

SpecChests == InitChests /\ [][DecodeChests]_vars

(***************************************************************************)
(* The name of the guid's map file on its own                              *)
(***************************************************************************)
\* the values a byte of the guid takes
GuidBytes == {0, 9, 10, 171, 255}

\* the guid 01 02 .. 10 with one byte replaced, and the guid of one value throughout
GuidInputs ==
  {[kind |-> "guid", guid |-> [AGuid EXCEPT ![p] = v]] : p \in 1..16, v \in GuidBytes}
  \cup {[kind |-> "guid", guid |-> [k \in 1..16 |-> v]] : v \in GuidBytes}

InitGuid == WorldInit /\ inp \in GuidInputs /\ out = NoLab

FormatGuid ==
  /\ inp.kind = "guid" /\ out = NoLab
  /\ out' = [kind |-> "guid", name |-> GuidName(inp.guid)]
  /\ UNCHANGED <<pc, loads, filename, player, version, pos, sections, extra, header,
                 grid, unknownKind, contents, events, fresh, inp>>

SpecGuid == InitGuid /\ [][FormatGuid]_vars

(***************************************************************************)
(* Properties of the tile codec (SpecTile)                                 *)
(***************************************************************************)
\* the tile a decode produced, and the liquid bits of its record's first flag byte
Decoded == out.r.tile
LiquidBits == BitAnd(inp.bytes[1], 24)

\* C5, as claimed: the active flag of a decoded tile is set if and only if its type
\* is not 0.
C5_ActiveIffType ==
  out.kind = "tile" => (active(Decoded) <=> Decoded.type # 0)

\* C5, amended: a decoded tile whose type is not 0 has its active flag set (a tile
\* without the flag has type 0, whatever the tile held before); an active tile may
\* have type 0.
C5_TypeImpliesActive ==
  out.kind = "tile" => (Decoded.type # 0 => active(Decoded))

\* C5: a record without the active bit was decoded over a tile that held a type
C5_Witness ==
  /\ out.kind = "tile"
  /\ inp.old.type # 0
  /\ ~active(Decoded) /\ Decoded.type = 0

\* C6, as claimed: a decoded tile whose liquid amount is 0 has neither the lava nor
\* the honey flag.
C6_NoLiquidNoFlags ==
  out.kind = "tile" => (Decoded.liquid = 0 => ~lava(Decoded) /\ ~honey(Decoded))

\* C6, amended: a tile decoded from a record without liquid bits (flags1 & 0x18 = 0)
\* has liquid 0 and neither flag; lava is set exactly for the bits 0x10 and honey
\* exactly for 0x18, whatever the amount byte, which may be 0.
C6_FlagsFollowBits ==
  out.kind = "tile" =>
    /\ LiquidBits = 0 => Decoded.liquid = 0
    /\ lava(Decoded) <=> LiquidBits = 16
    /\ honey(Decoded) <=> LiquidBits = 24

\* C6: a honey record was decoded, and a record without liquid bits over a tile
\* that held a liquid
C6_Witness ==
  /\ out.kind = "tile"
  /\ \/ LiquidBits = 24 /\ honey(Decoded) /\ ~lava(Decoded)
     \/ LiquidBits = 0 /\ inp.old.liquid # 0 /\ Decoded.liquid = 0

(***************************************************************************)
(* Properties of the bitmap reader (SpecBitmap)                            *)
(***************************************************************************)
\* bit k (0 the lowest) of the byte b
BitOf(b, k) == (b \div (2 ^ k)) % 2 = 1

\* byte j (from 0) of the bitmap, which follows the 2-byte count
BitmapByte(j) == inp.bytes[3 + j]

\* the bits read, and how many bytes the reader took
BitsRead == out.r.extra
BytesRead == out.r.h.pos - 2

\* C7, as claimed: the bitmap is read MSB-first: bit i is taken from byte i / 8 at
\* position 0x80 >> (i % 8), the first from 0x80 of the first byte, and
\* ceil(num_tile_types / 8) bytes are consumed.
C7_MsbFirst ==
  out.kind = "bitmap" =>
    /\ Len(BitsRead) = Max(inp.n, 0)
    /\ BytesRead = (Max(inp.n, 0) + 7) \div 8
    /\ \A i \in 0..(inp.n - 1) : BitsRead[i + 1] <=> BitOf(BitmapByte(i \div 8), 7 - (i % 8))

\* C7, amended: the bitmap of num_tile_types bits is read LSB-first: bit i is taken
\* from byte i / 8 at position 1 << (i % 8), the first from 0x01 of the first byte,
\* and ceil(num_tile_types / 8) bytes are consumed.
C7_LsbFirst ==
  out.kind = "bitmap" =>
    /\ Len(BitsRead) = Max(inp.n, 0)
    /\ BytesRead = (Max(inp.n, 0) + 7) \div 8
    /\ \A i \in 0..(inp.n - 1) : BitsRead[i + 1] <=> BitOf(BitmapByte(i \div 8), i % 8)

\* C7: a bitmap of more than 8 bits whose first byte is 0x01 was read
C7_Witness ==
  /\ out.kind = "bitmap"
  /\ inp.n > 8 /\ BitmapByte(0) = 1 /\ BitmapByte(1) = 128
  /\ BitsRead[1] /\ ~BitsRead[8]

(***************************************************************************)
(* Properties of loadChests (SpecChests)                                   *)
(***************************************************************************)
\* the item of a slot
SlotItem(sl) ==
  [stack |-> sl.stack, name |-> ItemName(sl.id), prefix |-> PrefixName(sl.prefix)]

\* the items of the slots whose stack is > 0, in slot order
ItemsOf(sls) ==
  LET full == SelectSeq(sls, LAMBDA sl : sl.stack > 0)
  IN  [j \in 1..Len(full) |-> SlotItem(full[j])]

\* C10: every decoded chest holds exactly one item per slot whose stack is > 0, in
\* slot order, each with the slot's stack and the names looked up for its item id and
\* prefix; the other slots add nothing and take 2 bytes each, so that the decoder
\* ends where the stream ends.
C10_ItemsAreFullSlots ==
  out.kind = "chests" =>
    /\ Len(out.r.val) = Len(inp.chests)
    /\ \A i \in 1..Len(inp.chests) :
         /\ out.r.val[i].items = ItemsOf(inp.chests[i].slots)
         /\ out.r.val[i].x = inp.chests[i].x
         /\ out.r.val[i].name = inp.chests[i].name
    /\ out.r.h.pos = Len(inp.bytes)

\* C10: a chest of three slots with the middle one empty was decoded to two items
C10_Witness ==
  /\ out.kind = "chests"
  /\ Len(inp.chests) = 1 /\ inp.n = 3
  /\ inp.chests[1].slots[1].stack > 0
  /\ inp.chests[1].slots[2].stack = 0
  /\ inp.chests[1].slots[3].stack > 0
  /\ Len(out.r.val[1].items) = 2

(***************************************************************************)
(* Properties of World::run (Spec)                                         *)
(***************************************************************************)
\* the events a run has emitted, as a set
Emitted == {events[i] : i \in 1..Len(events)}

\* the error events of a run
LoadErrors ==
  {"UnsupportedVersion", "VersionTooOld", "NotARelogicMap", "NotAMapFile", "NotAPlayerMap"}

\* C1, as claimed: a run that has ended has emitted exactly one terminal event,
\* loaded or a load error, never both and never neither.
C1_OneTerminalEvent ==
  pc = "done" => Len(events) = 1

\* the version word of the run lies outside MinimumVersion..HighestVersion
VersionRejected == version > HighestVersion \/ version < MinimumVersion

\* C8: a run on a file whose version word is greater than HighestVersion or less
\* than MinimumVersion ends with one load error and no loaded event, has read the
\* 4 bytes of the version word and nothing else (no section table, no bitmap), and
\* has allocated no tile array.
C8_VersionRejected ==
  pc = "done" /\ VersionRejected =>
    /\ Len(events) = 1 /\ events[1] \in {"UnsupportedVersion", "VersionTooOld"}
    /\ pos = 4
    /\ sections = <<>> /\ extra = <<>>
    /\ loads = 1 => tiles = <<>> /\ tilesWide = 0 /\ tilesHigh = 0 /\ Contents = Empty

\* C8: a run has ended on a version word above HighestVersion
C8_Witness ==
  /\ pc = "done" /\ version = HighestVersion + 1
  /\ events = <<"UnsupportedVersion">> /\ pos = 4

\* C9, as claimed: a run whose entities section (version >= 122) held a record of a
\* kind other than 0, 1 and 2 ends with the UnknownEntityKind error and without
\* loaded.
C9_UnknownKindRejected ==
  pc = "done" /\ unknownKind => events = <<"UnknownEntityKind">>

(***************************************************************************)
(* Properties of loadTiles (SpecTiles)                                     *)
(***************************************************************************)
\* the offsets of the cells (x, y) of the world
Cells == {yy * tilesWide + xx : xx \in 0..(tilesWide - 1), yy \in 0..(tilesHigh - 1)}

\* C3: after a run that ended with loaded, the tile array has tilesWide * tilesHigh
\* cells and every cell has been written, by the decode stored at its offset or by
\* the copy of a run.
C3_AllCellsWritten ==
  pc = "done" /\ "loaded" \in Emitted =>
    /\ Len(tiles) = tilesWide * tilesHigh
    /\ Cells \subseteq written
    /\ written = 0..(tilesWide * tilesHigh - 1)

\* C3: a world of two columns of two rows has been loaded within its array, one
\* column from an active run of 3 cut to fewer cells, the other not all active
C3_Witness ==
  /\ pc = "done" /\ events = <<"loaded">>
  /\ tilesWide = 2 /\ tilesHigh = 2 /\ ~oob /\ ~overrun
  /\ written = {0, 1, 2, 3}
  /\ tiles[1].type = 1 /\ tiles[3].type = 1 /\ tiles[1].u = 16
  /\ ~active(tiles[2]) /\ ~active(tiles[4])

\* C4, as claimed: when a record decoded at row y returns a run length rle with
\* y + rle >= tilesHigh, no index >= tilesWide * tilesHigh is written and the run
\* ends with the CorruptTileStream error.
C4_OverrunRejected ==
  overrun => ~oob /\ (pc = "done" => events = <<"CorruptTileStream">>)

(***************************************************************************)
(* Properties of a second run (SpecReload)                                 *)
(***************************************************************************)
\* C2, as claimed: after a run that ended with loaded, the World holds the chests,
\* signs, npcs, entities, kills, seen, chats and shimmered a fresh World holds
\* after a run on the same file, whatever an earlier run decoded.
C2_ReloadReplaces ==
  pc = "done" /\ events = <<"loaded">> => Contents = fresh

(***************************************************************************)
(* Properties of the player-map overlay (SpecOverlay)                      *)
(***************************************************************************)
\* setPlayer has run the overlay on the directory inp.fs, from the tiles inp.before
OverlayRan == inp.kind = "overlay" /\ inp.ran

\* the file the overlay opened
Opened == MapFile(header, inp.fs)

AllSeen == \A i \in 1..Len(tiles) : TileSeen(tiles[i])
NoneSeen == \A i \in 1..Len(tiles) : ~TileSeen(tiles[i])

\* C11: when the overlay runs and neither the file named by the guid nor the one
\* named by the worldID exists, every tile has its seen bit set afterwards and no
\* error event is emitted.
C11_MissingMapMarksAll ==
  OverlayRan /\ ~inp.fs.byGuid.exists /\ ~inp.fs.byId.exists =>
    /\ Len(tiles) = tilesWide * tilesHigh
    /\ AllSeen
    /\ events = <<>>

\* C11: the overlay found no file on a World none of whose four tiles was seen
C11_Witness ==
  /\ OverlayRan /\ inp.fs = NoMaps
  /\ Len(inp.before) = 4 /\ \A i \in 1..4 : ~TileSeen(inp.before[i])
  /\ AllSeen /\ Len(tiles) = 4

\* C12, as claimed: when the overlay runs on a present map without a cell (v1: every
\* presence byte 0; v2: every cell of kind 0), every tile has its seen bit cleared
\* afterwards, whatever the bits were before.
C12_EmptyMapClearsAll ==
  OverlayRan /\ Opened \in EmptyMaps => NoneSeen

\* a tile without its seen bit (0x200)
WithoutSeen(t) == [t EXCEPT !.flags = (t.flags \div 1024) * 1024 + (t.flags % 512)]

\* C13: the overlay (missing file, v1, v2) changes nothing in a tile but the seen
\* bit of flags: type, wall, u, v, colors, liquid, slope and every other flag bit
\* are what they were before it.
C13_OnlySeenChanges ==
  OverlayRan =>
    /\ Len(tiles) = Len(inp.before)
    /\ \A i \in 1..Len(tiles) : WithoutSeen(tiles[i]) = WithoutSeen(inp.before[i])

\* C13: the overlay set the seen bit of an active tile with u and v and cleared that
\* of a tile with honey
C13_Witness ==
  /\ OverlayRan
  /\ \E i \in 1..Len(tiles) :
       /\ TileSeen(tiles[i]) /\ ~TileSeen(inp.before[i])
       /\ active(tiles[i]) /\ tiles[i].u = 16
  /\ \E i \in 1..Len(tiles) :
       /\ ~TileSeen(tiles[i]) /\ TileSeen(inp.before[i])
       /\ honey(tiles[i]) /\ tiles[i].liquid = 7

\* C14, as claimed: the overlay never applies setSeen at an index
\* >= tilesWide * tilesHigh, and a map whose run leaves the grid ends it with the
\* CorruptPlayerMap error.
C14_OverlayInRange ==
  OverlayRan =>
    /\ ~out.oob
    /\ Opened \in OverrunMaps => events = <<"CorruptPlayerMap">>

(***************************************************************************)
(* Properties of the guid's file name (SpecGuid)                           *)
(***************************************************************************)
\* the two hex digits of a byte, and those of the bytes of g at the places ks
HexByte(b) == <<HexDigit(b \div 16), HexDigit(b % 16)>>
Group(g, ks) == Concat([j \in 1..Len(ks) |-> HexByte(g[ks[j]])])

\* the six groups: bytes 0-3, 4-5 and 6-7 from the highest byte down (little-endian
\* words), bytes 8-9, 10-11 and 12-15 in file order (big-endian words)
Group1 == Group(inp.guid, <<4, 3, 2, 1>>)
Group2 == Group(inp.guid, <<6, 5>>)
Group3 == Group(inp.guid, <<8, 7>>)
Group4 == Group(inp.guid, <<9, 10>>)
Group5 == Group(inp.guid, <<11, 12>>)
Group6 == Group(inp.guid, <<13, 14, 15, 16>>)

\* C15, as claimed: the name is the six groups of 8, 4, 4, 4, 4 and 8 digits
\* separated by five hyphens, followed by .map.
C15_FiveHyphens ==
  out.kind = "guid" =>
    out.name = <<"/">> \o Group1 \o <<"-">> \o Group2 \o <<"-">> \o Group3 \o <<"-">>
               \o Group4 \o <<"-">> \o Group5 \o <<"-">> \o Group6
               \o <<".", "m", "a", "p">>

\* C15, amended: the name is the groups of 8, 4, 4 and 4 digits and one group of 12
\* digits (bytes 10-11 then bytes 12-15, all in file order) separated by four
\* hyphens, followed by .map.
C15_FourHyphens ==
  out.kind = "guid" =>
    out.name = <<"/">> \o Group1 \o <<"-">> \o Group2 \o <<"-">> \o Group3 \o <<"-">>
               \o Group4 \o <<"-">> \o Group5 \o Group6
               \o <<".", "m", "a", "p">>

\* C15: the guid 01 02 .. 10 was written as /04030201-0605-0807-090a-0b0c0d0e0f10.map
C15_Witness ==
  /\ out.kind = "guid" /\ inp.guid = AGuid
  /\ out.name = <<"/", "0", "4", "0", "3", "0", "2", "0", "1", "-", "0", "6", "0", "5",
                  "-", "0", "8", "0", "7", "-", "0", "9", "0", "a", "-", "0", "b", "0",
                  "c", "0", "d", "0", "e", "0", "f", "1", "0", ".", "m", "a", "p">>

(***************************************************************************)
(* Properties of the section dispatch (Spec)                               *)
(***************************************************************************)
\* the steps of run that seek to an entry of the section table
Seeking ==
  pc \in {"header", "chests", "signs", "npcs", "entities", "plates", "town",
          "bestiary", "creative"}

\* C16, as claimed: every index that run is about to seek to lies inside the section
\* table read from the file (the file has passed the version and magic checks when
\* run is at such a step).
C16_IndexInTable == Seeking => SectionIndex(pc) < Len(sections)

====
